---- MODULE Spec2Model ----
(***************************************************************************)
(* The four browser widgets of the repository as one state machine:        *)
(*   theme.js            - ThemeToggle                                     *)
(*   gallery.js          - GalleryViewer                                   *)
(*   knowledgeCheck.js   - QuizEngine (class KnowledgeCheckEngine)         *)
(*   unnamed/part_000    - QuizCatalogList (Knowledge Check List Manager)  *)
(* Each widget runs on its own page and shares no state with the others;   *)
(* `widget` says which script the loaded page runs.  JavaScript strings    *)
(* that the code inspects character by character (toLowerCase, includes,   *)
(* localeCompare, template concatenation) are sequences of one-character   *)
(* strings; strings the code only compares for identity are TLA+ strings.  *)
(***************************************************************************)
EXTENDS Integers, Sequences, FiniteSets

VARIABLES
    widget,             \* which page / script is running
    fetchResult,        \* the page's single manifest fetch: "pending" or what it resolved with
    (* theme.js *)
    storedTheme,        \* localStorage['theme']
    dataTheme,          \* <html data-theme=...>
    toggleBound,        \* the click listener of #themeToggle is attached
    (* gallery.js *)
    folderParam,        \* ?folder=...
    allImages,
    filteredImages,
    currentImageIndex,
    searchBox,          \* #searchBox value
    gallery,            \* content of #gallery
    lightboxActive,     \* #lightbox has class 'active'
    lightboxShown,      \* what #lightboxImage/#lightboxName/#lightboxCounter show
    (* knowledgeCheck.js *)
    data,               \* this.data
    selectedAnswers,    \* this.state.selectedAnswers
    container,          \* content of the quiz container
    (* unnamed/part_000 *)
    kcData,
    filteredData,
    searchInput,        \* #searchInput value
    topicFilter,        \* #topicFilter value
    topicOptions,       \* the <option> values of #topicFilter after "All Topics"
    sortSelect,         \* #sortSelect value
    kcListContainer,    \* content of #kcListContainer
    (* the call that produced the current state *)
    lastCall

themeVars   == <<storedTheme, dataTheme, toggleBound>>
galleryVars == <<folderParam, allImages, filteredImages, currentImageIndex,
                 searchBox, gallery, lightboxActive, lightboxShown>>
quizVars    == <<data, selectedAnswers, container>>
catalogVars == <<kcData, filteredData, searchInput, topicFilter, topicOptions,
                 sortSelect, kcListContainer>>
vars == <<widget, fetchResult, themeVars, galleryVars, quizVars, catalogVars, lastCall>>

\* a step of one page's script: the other widgets do not run on that page
OnTheme   == widget = "theme"   /\ UNCHANGED <<widget, fetchResult, galleryVars, quizVars, catalogVars>>
OnGallery == widget = "gallery" /\ UNCHANGED <<widget, themeVars, quizVars, catalogVars>>
OnQuiz    == widget = "quiz"    /\ UNCHANGED <<widget, themeVars, galleryVars, catalogVars>>
OnCatalog == widget = "catalog" /\ UNCHANGED <<widget, themeVars, galleryVars, quizVars>>

----------------------------------------------------------------------------
(* Bounds of the model *)

MaxNotes == 2          \* notes in an image manifest
MaxQuestions == 3      \* questions in a question manifest
MaxKC == 3             \* entries in a catalog manifest

----------------------------------------------------------------------------
(* JavaScript values and string operations *)

Null == "<null>"
NoCall == [op |-> "none"]

SeqsUpTo(S, n) == UNION {[1..k -> S] : k \in 0..n}

Range(s) == {s[i] : i \in DOMAIN s}

Count(s, x) == Cardinality({i \in DOMAIN s : s[i] = x})

\* s is a rearrangement of t
IsPermutation(s, t) ==
    /\ Len(s) = Len(t)
    /\ \A x \in Range(s) \cup Range(t) : Count(s, x) = Count(t, x)

ToLowerChar(c) ==
    CASE c = "A" -> "a"
      [] c = "B" -> "b"
      [] c = "C" -> "c"
      [] c = "X" -> "x"
      [] c = "Y" -> "y"
      [] OTHER -> c

\* String.prototype.toLowerCase
ToLowerCase(s) == [i \in DOMAIN s |-> ToLowerChar(s[i])]

\* String.prototype.includes
Includes(s, t) ==
    \E i \in 0..(Len(s) - Len(t)) : SubSeq(s, i + 1, i + Len(t)) = t

\* Array.prototype.indexOf, 0-based, -1 when absent
IndexOf(s, x) ==
    IF \E i \in DOMAIN s : s[i] = x
    THEN (CHOOSE i \in DOMAIN s : s[i] = x /\ \A k \in 1..(i - 1) : s[k] # x) - 1
    ELSE -1

\* Array.prototype.splice(index, 1), index 0-based
Splice1(s, index) == SubSeq(s, 1, index) \o SubSeq(s, index + 2, Len(s))

----------------------------------------------------------------------------
(* The manifest fetch: one per page, resolved once *)

\* fetch() rejected
NetworkError == [net |-> "error", ok |-> FALSE, kind |-> "none", data |-> <<>>]

\* fetch() resolved with a response: ok is response.ok; the body is not JSON
\* ("invalid"), JSON without the manifest's list field ("other"), or the manifest
HttpResponse(ok, kind, body) == [net |-> "ok", ok |-> ok, kind |-> kind, data |-> body]

Responses(Manifests) ==
    {NetworkError}
      \cup {HttpResponse(ok, kind, <<>>) : ok \in BOOLEAN, kind \in {"invalid", "other"}}
      \cup {HttpResponse(ok, "manifest", m) : ok \in BOOLEAN, m \in Manifests}

\* what the page remembers of a resolved fetch
Outcome(r) == [net |-> r.net, ok |-> r.ok, kind |-> r.kind]

Pending == [net |-> "pending", ok |-> FALSE, kind |-> "none"]

\* await response.json() throws
JsonThrows(r) == r.kind = "invalid"

----------------------------------------------------------------------------
(* theme.js *)

ThemeValues == {Null, "", "light", "dark", "blue"}

\* localStorage.getItem('theme') || 'light'
SavedOrLight(stored) == IF stored = Null \/ stored = "" THEN "light" ELSE stored

\* runs once, when the DOM is ready: the attribute is not set before it
InitTheme ==
    /\ OnTheme
    /\ dataTheme = Null
    /\ dataTheme' = SavedOrLight(storedTheme)
    /\ \E themeToggle \in BOOLEAN : toggleBound' = themeToggle
    /\ lastCall' = [op |-> "initTheme"]
    /\ UNCHANGED <<storedTheme>>

\* a toggle that only knows the two themes and keeps any other value
ToggledTheme_KeepsUnknown(currentTheme) ==
    IF currentTheme = "light" THEN "dark"
    ELSE IF currentTheme = "dark" THEN "light" ELSE currentTheme

ToggledTheme(currentTheme) == IF currentTheme = "light" THEN "dark" ELSE "light"

ToggleTheme ==
    /\ OnTheme
    /\ toggleBound
    /\ LET newTheme == ToggledTheme(dataTheme) IN
        /\ dataTheme' = newTheme
        /\ storedTheme' = newTheme
    /\ lastCall' = [op |-> "toggleTheme", before |-> dataTheme]
    /\ UNCHANGED <<toggleBound>>


----------------------------------------------------------------------------
(* gallery.js *)

\* 'all', the sentinel of ?folder=
All == <<"a", "l", "l">>

\* urlParams.get('folder') is null: a value equal to no string
NoParam == <<Null>>

FolderParams == {All, NoParam, <<"a">>, <<"b">>, <<"z">>}

\* note.images: the array, or absent from the JSON
Images(list) == [present |-> TRUE, list |-> list]
NoImages == [present |-> FALSE, list |-> <<>>]

Note(folder, title, hasImages, images) ==
    [folder |-> folder, title |-> title, hasImages |-> hasImages, images |-> images]

Img(name, file) == [name |-> name, file |-> file]

\* the notes a manifest is built from
NotePool ==
    { Note(<<"a">>, <<"A", "b">>, TRUE,
           Images(<<Img(<<"a">>, <<"x">>), Img(<<"B">>, <<"y">>)>>)),
      Note(<<"b">>, <<"c">>, TRUE, Images(<<Img(<<"b">>, <<"x">>)>>)),
      Note(<<"b">>, <<"C", "a">>, TRUE, NoImages),
      Note(<<"a">>, <<"c">>, FALSE, Images(<<Img(<<"c">>, <<"x">>)>>)),
      Note(<<"z">>, <<"y">>, TRUE, Images(<<>>)) }

ImageManifests == SeqsUpTo(NotePool, MaxNotes)

SearchTerms == {<<>>, <<"a">>, <<"B">>, <<"c">>, <<"x">>}

Keys == {"Escape", "ArrowLeft", "ArrowRight", "Enter"}

\* entries labelled with the note's folder id instead of its title
NoteImages_FolderAsLabel(note) ==
    [i \in DOMAIN note.images.list |->
        [name |-> note.images.list[i].name,
         file |-> note.folder \o <<"/">> \o note.images.list[i].file,
         folder |-> note.folder]]

\* gallery.js:42-46 and 55-59: one entry per image of the note
NoteImages(note) ==
    [i \in DOMAIN note.images.list |->
        [name |-> note.images.list[i].name,
         file |-> note.folder \o <<"/">> \o note.images.list[i].file,
         folder |-> note.title]]

\* gallery.js:39-49: data.notes.forEach pushing onto allImages
RECURSIVE PushAll(_, _)
PushAll(images, notes) ==
    IF notes = <<>> THEN images
    ELSE LET note == Head(notes) IN
         PushAll(IF note.hasImages /\ note.images.present
                 THEN images \o NoteImages(note) ELSE images,
                 Tail(notes))

\* gallery.js:52-60: data.notes.find, then the map over its images
FolderImages(images, notes, param) ==
    IF \E i \in DOMAIN notes : notes[i].folder = param
    THEN LET note == notes[CHOOSE i \in DOMAIN notes :
                             /\ notes[i].folder = param
                             /\ \A k \in 1..(i - 1) : notes[k].folder # param]
         IN IF note.hasImages /\ note.images.present THEN NoteImages(note) ELSE images
    ELSE images

\* the try block of loadImages throws: fetch rejected, response.json() threw,
\* or data.notes is undefined (forEach / find of undefined)
LoadImagesThrows(r) == r.net = "error" \/ JsonThrows(r) \/ r.kind = "other"

GalleryStatic == [kind |-> "static", cards |-> <<>>]
GalleryError  == [kind |-> "error", cards |-> <<>>]

\* loadGallery: what #gallery holds for a filtered list
LoadGallery(filtered) ==
    IF Len(filtered) = 0 THEN [kind |-> "empty", cards |-> <<>>]
    ELSE [kind |-> "cards", cards |-> filtered]

GalleryCall(op, arg) ==
    [op |-> op, arg |-> arg, index |-> currentImageIndex,
     n |-> Len(filteredImages), active |-> lightboxActive]

LoadImages ==
    /\ OnGallery
    /\ fetchResult = Pending
    /\ \E r \in Responses(ImageManifests) :
        /\ fetchResult' = Outcome(r)
        /\ IF LoadImagesThrows(r)
           THEN /\ gallery' = GalleryError
                /\ UNCHANGED <<allImages, filteredImages>>
           ELSE LET loaded == IF folderParam = All
                              THEN PushAll(allImages, r.data)
                              ELSE FolderImages(allImages, r.data, folderParam)
                IN /\ allImages' = loaded
                   /\ filteredImages' = loaded
                   /\ gallery' = LoadGallery(loaded)
        /\ lastCall' = GalleryCall("loadImages", r.data)
    /\ UNCHANGED <<folderParam, currentImageIndex, searchBox, lightboxActive, lightboxShown>>

\* the predicate of filterImages, search already lower-cased
ImageMatches(img, search) ==
    \/ Includes(ToLowerCase(img.name), search)
    \/ Includes(ToLowerCase(img.folder), search)

FilteredBy(images, term) ==
    LET search == ToLowerCase(term)
        Test(img) == ImageMatches(img, search)
    IN SelectSeq(images, Test)

\* a cumulative filter: the previous result is narrowed, not the full list
FilterImages_Cumulative(term) ==
    /\ OnGallery
    /\ searchBox' = term
    /\ filteredImages' = FilteredBy(filteredImages, term)
    /\ gallery' = LoadGallery(filteredImages')
    /\ lastCall' = GalleryCall("filterImages", term)
    /\ UNCHANGED <<fetchResult, folderParam, allImages, currentImageIndex,
                   lightboxActive, lightboxShown>>

\* the search box's input event: the user leaves `term` in the box
FilterImages(term) ==
    /\ OnGallery
    /\ searchBox' = term
    /\ filteredImages' = FilteredBy(allImages, term)
    /\ gallery' = LoadGallery(filteredImages')
    /\ lastCall' = GalleryCall("filterImages", term)
    /\ UNCHANGED <<fetchResult, folderParam, allImages, currentImageIndex,
                   lightboxActive, lightboxShown>>

\* the lightbox's image, name and 'Image i of N' counter for 0-based index
Shown(images, index) ==
    [file |-> images[index + 1].file, name |-> images[index + 1].name,
     i |-> index + 1, n |-> Len(images)]

NothingShown == [file |-> <<>>, name |-> <<>>, i |-> 0, n |-> 0]

\* filteredImages[index] is an entry (otherwise img.file throws a TypeError)
HasEntry(images, index) == 0 <= index /\ index < Len(images)

\* a click on the card rendered with openLightbox(index)
OpenLightbox(index) ==
    /\ OnGallery
    /\ gallery.kind = "cards"
    /\ index \in 0..(Len(gallery.cards) - 1)
    /\ currentImageIndex' = index
    /\ IF HasEntry(filteredImages, index)
       THEN /\ lightboxShown' = Shown(filteredImages, index)
            /\ lightboxActive' = TRUE
       ELSE UNCHANGED <<lightboxShown, lightboxActive>>
    /\ lastCall' = GalleryCall("openLightbox", index)
    /\ UNCHANGED <<fetchResult, folderParam, allImages, filteredImages, searchBox, gallery>>

\* closeLightbox(event): target is "none" for a call without event
ClosedBy(target) == target = "none" \/ target = "lightbox"

CloseLightbox(target) ==
    /\ OnGallery
    /\ lightboxActive
    /\ lightboxActive' = IF ClosedBy(target) THEN FALSE ELSE lightboxActive
    /\ lastCall' = GalleryCall("closeLightbox", target)
    /\ UNCHANGED <<fetchResult, folderParam, allImages, filteredImages, currentImageIndex,
                   searchBox, gallery, lightboxShown>>

\* a wraparound that wraps below 0 to length instead of length - 1
NavigatedIndex_WrapToLength(index, direction, length) ==
    LET moved   == index + direction
        wrapLow == IF moved < 0 THEN length ELSE moved
    IN IF wrapLow >= length THEN 0 ELSE wrapLow

\* gallery.js:155-158
NavigatedIndex(index, direction, length) ==
    LET moved   == index + direction
        wrapLow == IF moved < 0 THEN length - 1 ELSE moved
    IN IF wrapLow >= length THEN 0 ELSE wrapLow

\* the state change of navigateImage(direction)
Navigate(direction) ==
    LET index == NavigatedIndex(currentImageIndex, direction, Len(filteredImages)) IN
    /\ currentImageIndex' = index
    /\ lightboxShown' = IF HasEntry(filteredImages, index)
                        THEN Shown(filteredImages, index) ELSE lightboxShown

\* the lightbox's previous / next buttons
NavigateImage(direction) ==
    /\ OnGallery
    /\ lightboxActive
    /\ Navigate(direction)
    /\ lastCall' = GalleryCall("navigateImage", direction)
    /\ UNCHANGED <<fetchResult, folderParam, allImages, filteredImages, searchBox,
                   gallery, lightboxActive>>

\* img.file.split('/').pop(): what follows the last '/'
RECURSIVE LastSegment(_)
LastSegment(file) ==
    IF \E i \in DOMAIN file : file[i] = "/"
    THEN LastSegment(Tail(file))
    ELSE file

\* downloadImage (the lightbox's download button): the name the link downloads under,
\* or the TypeError of reading .file of undefined
Download(images, index) ==
    IF HasEntry(images, index)
    THEN [thrown |-> FALSE, href |-> images[index + 1].file,
          download |-> LastSegment(images[index + 1].file)]
    ELSE [thrown |-> TRUE, href |-> <<>>, download |-> <<>>]

DownloadImage ==
    /\ OnGallery
    /\ lightboxActive
    /\ lastCall' = GalleryCall("downloadImage", Download(filteredImages, currentImageIndex))
    /\ UNCHANGED <<fetchResult, galleryVars>>

\* the listener without its test of the lightbox's active class
KeyDown_Ungated(key) ==
    /\ OnGallery
    /\ CASE key = "Escape" ->
              /\ lightboxActive' = FALSE
              /\ UNCHANGED <<currentImageIndex, lightboxShown>>
         [] key = "ArrowLeft" ->
              /\ Navigate(-1)
              /\ UNCHANGED lightboxActive
         [] key = "ArrowRight" ->
              /\ Navigate(1)
              /\ UNCHANGED lightboxActive
         [] OTHER -> UNCHANGED <<currentImageIndex, lightboxShown, lightboxActive>>
    /\ lastCall' = GalleryCall("keydown", key)
    /\ UNCHANGED <<fetchResult, folderParam, allImages, filteredImages, searchBox, gallery>>

\* the document's keydown listener
KeyDown(key) ==
    /\ OnGallery
    /\ IF lightboxActive
       THEN CASE key = "Escape" ->
                   /\ lightboxActive' = FALSE
                   /\ UNCHANGED <<currentImageIndex, lightboxShown>>
              [] key = "ArrowLeft" ->
                   /\ Navigate(-1)
                   /\ UNCHANGED lightboxActive
              [] key = "ArrowRight" ->
                   /\ Navigate(1)
                   /\ UNCHANGED lightboxActive
              [] OTHER -> UNCHANGED <<currentImageIndex, lightboxShown, lightboxActive>>
       ELSE UNCHANGED <<currentImageIndex, lightboxShown, lightboxActive>>
    /\ lastCall' = GalleryCall("keydown", key)
    /\ UNCHANGED <<fetchResult, folderParam, allImages, filteredImages, searchBox, gallery>>


----------------------------------------------------------------------------
(* knowledgeCheck.js *)

OptionIds == {"A", "B", "C"}

Option(id, isCorrect) == [id |-> id, isCorrect |-> isCorrect]

\* displayNumber 0: the property is not set yet
Question(id, multiSelect, options) ==
    [id |-> id, multiSelect |-> multiSelect, options |-> options, displayNumber |-> 0]

\* the questions a manifest is built from, one per id
QuestionPool ==
    { Question(1, FALSE, <<Option("A", TRUE), Option("B", FALSE), Option("C", FALSE)>>),
      Question(2, TRUE, <<Option("A", FALSE), Option("B", TRUE), Option("C", TRUE)>>),
      Question(3, FALSE, <<Option("A", FALSE), Option("B", TRUE)>>),
      Question(12, FALSE, <<Option("A", TRUE), Option("B", FALSE)>>) }

QuestionIds == {q.id : q \in QuestionPool}

QuestionManifests ==
    {m \in SeqsUpTo(QuestionPool, MaxQuestions) :
        \A i, k \in DOMAIN m : i # k => m[i].id # m[k].id}

\* this.data before the load, and after it (questions absent from the JSON or not)
NoData == [loaded |-> FALSE, hasQuestions |-> FALSE, questions |-> <<>>]
Data(hasQuestions, qs) == [loaded |-> TRUE, hasQuestions |-> hasQuestions, questions |-> qs]

\* a value of this.state.selectedAnswers[questionId]
NotSelected == [kind |-> "undefined", str |-> "", arr |-> <<>>]
Single(optionId) == [kind |-> "string", str |-> optionId, arr |-> <<>>]
Multi(optionIds) == [kind |-> "array", str |-> "", arr |-> optionIds]

Digits == <<"0", "1", "2", "3", "4", "5", "6", "7", "8", "9">>

\* `${question.id}` of a non-negative integer
RECURSIVE IdString(_)
IdString(n) ==
    IF n < 10 THEN <<Digits[n + 1]>> ELSE IdString(n \div 10) \o <<Digits[(n % 10) + 1]>>

DigitValue(c) == (CHOOSE d \in DOMAIN Digits : Digits[d] = c) - 1

\* parseInt of a string of decimal digits
RECURSIVE ParseInt(_)
ParseInt(s) ==
    IF Len(s) = 1 THEN DigitValue(s[1])
    ELSE 10 * ParseInt(SubSeq(s, 1, Len(s) - 1)) + DigitValue(s[Len(s)])

\* a swap that loses questions[i]: questions[i] = questions[j] alone
Swap_Overwrite(qs, i, j) ==
    [k \in DOMAIN qs |-> IF k = i + 1 THEN qs[j + 1] ELSE qs[k]]

\* [questions[i], questions[j]] = [questions[j], questions[i]], 0-based
Swap(qs, i, j) ==
    [k \in DOMAIN qs |-> IF k = i + 1 THEN qs[j + 1] ELSE IF k = j + 1 THEN qs[i + 1] ELSE qs[k]]

\* the values Math.floor(Math.random() * (i + 1)) can take for i = 1..n-1
RandomChoices(n) == {rnd \in [1..(n - 1) -> 0..(n - 1)] : \A i \in 1..(n - 1) : rnd[i] <= i}

\* the loop of shuffleQuestions from i down to 1, rnd[i] being the j drawn at i
RECURSIVE ShuffleLoop(_, _, _)
ShuffleLoop(qs, i, rnd) ==
    IF i > 0 THEN ShuffleLoop(Swap(qs, i, rnd[i]), i - 1, rnd) ELSE qs

\* questions.forEach((question, index) => question.displayNumber = index + 1)
Renumber(qs) == [k \in DOMAIN qs |-> [qs[k] EXCEPT !.displayNumber = k]]

ShuffleQuestions(qs, rnd) == Renumber(ShuffleLoop(qs, Len(qs) - 1, rnd))

IsSelected(option, isMultiSelect, selected) ==
    IF isMultiSelect
    THEN selected.kind = "array" /\ \E i \in DOMAIN selected.arr : selected.arr[i] = option.id
    ELSE selected.kind = "string" /\ selected.str = option.id

\* a renderer that reveals the correct options of a question once it is answered
RenderOption_RevealAll(questionId, option, isMultiSelect, selected) ==
    LET isSelected == IsSelected(option, isMultiSelect, selected)
        answered   == selected.kind = "string" \/ Len(selected.arr) > 0
    IN
    [questionId  |-> IdString(questionId),
     optionId    |-> option.id,
     multiSelect |-> IF isMultiSelect THEN "true" ELSE "false",
     class       |-> IF isSelected \/ (answered /\ option.isCorrect)
                     THEN (IF option.isCorrect THEN "option correct" ELSE "option incorrect")
                     ELSE "option",
     explanation |-> IF isSelected
                     THEN (IF option.isCorrect THEN "explanation correct"
                                               ELSE "explanation incorrect")
                     ELSE "none"]

\* the .option element and the explanation block that follows it
RenderOption(questionId, option, isMultiSelect, selected) ==
    LET isSelected == IsSelected(option, isMultiSelect, selected) IN
    [questionId  |-> IdString(questionId),
     optionId    |-> option.id,
     multiSelect |-> IF isMultiSelect THEN "true" ELSE "false",
     class       |-> IF isSelected
                     THEN (IF option.isCorrect THEN "option correct" ELSE "option incorrect")
                     ELSE "option",
     explanation |-> IF isSelected
                     THEN (IF option.isCorrect THEN "explanation correct"
                                               ELSE "explanation incorrect")
                     ELSE "none"]

\* the .question-card element
RenderQuestion(question, answers) ==
    [questionId |-> IdString(question.id),
     number     |-> IF question.displayNumber # 0
                    THEN question.displayNumber ELSE question.id,
     options    |-> [i \in DOMAIN question.options |->
                        RenderOption(question.id, question.options[i],
                                     question.multiSelect, answers[question.id])]]

QuizStatic == [kind |-> "static", cards |-> <<>>]
QuizError  == [kind |-> "error", cards |-> <<>>]

RenderQuestions(d, answers) ==
    IF ~d.hasQuestions THEN [kind |-> "none-available", cards |-> <<>>]
    ELSE [kind |-> "cards",
          cards |-> [i \in DOMAIN d.questions |-> RenderQuestion(d.questions[i], answers)]]

\* the try block of loadFromJSON throws
LoadFromJSONThrows(r) == r.net = "error" \/ ~r.ok \/ JsonThrows(r)

LoadFromJSON ==
    /\ OnQuiz
    /\ fetchResult = Pending
    /\ \E r \in Responses(QuestionManifests) :
        /\ fetchResult' = Outcome(r)
        /\ lastCall' = [op |-> "loadFromJSON", received |-> r.data]
        /\ IF LoadFromJSONThrows(r)
           THEN /\ container' = QuizError
                /\ UNCHANGED data
           ELSE IF r.kind = "other"
           THEN /\ data' = Data(FALSE, <<>>)
                /\ container' = RenderQuestions(data', selectedAnswers)
           ELSE \E rnd \in RandomChoices(Len(r.data)) :
                /\ data' = Data(TRUE, ShuffleQuestions(r.data, rnd))
                /\ container' = RenderQuestions(data', selectedAnswers)
    /\ UNCHANGED selectedAnswers

\* a selection that never deselects: the splice is missing
Selected_NoDeselect(selected, optionId, isMultiSelect) ==
    IF isMultiSelect
    THEN IF selected.kind = "string" THEN selected
         ELSE LET arr   == IF selected.kind = "undefined" THEN <<>> ELSE selected.arr
                  index == IndexOf(arr, optionId)
              IN IF index > -1 THEN Multi(arr)
                 ELSE IF Len(arr) < 2 THEN Multi(Append(arr, optionId))
                 ELSE Multi(arr)
    ELSE Single(optionId)

\* a selection capped one too high: selected.length <= 2
Selected_CapOffByOne(selected, optionId, isMultiSelect) ==
    IF isMultiSelect
    THEN IF selected.kind = "string" THEN selected
         ELSE LET arr   == IF selected.kind = "undefined" THEN <<>> ELSE selected.arr
                  index == IndexOf(arr, optionId)
              IN IF index > -1 THEN Multi(Splice1(arr, index))
                 ELSE IF Len(arr) <= 2 THEN Multi(Append(arr, optionId))
                 ELSE Multi(arr)
    ELSE Single(optionId)

\* the selection of one question after selectOption(questionId, optionId, isMultiSelect);
\* a string under isMultiSelect has no splice/push: the call throws and nothing changes
Selected(selected, optionId, isMultiSelect) ==
    IF isMultiSelect
    THEN IF selected.kind = "string" THEN selected
         ELSE LET arr   == IF selected.kind = "undefined" THEN <<>> ELSE selected.arr
                  index == IndexOf(arr, optionId)
              IN IF index > -1 THEN Multi(Splice1(arr, index))
                 ELSE IF Len(arr) < 2 THEN Multi(Append(arr, optionId))
                 ELSE Multi(arr)
    ELSE Single(optionId)

\* renderSpecificQuestion: the first card of the question is replaced
RenderSpecificQuestion(dom, qs, answers, questionId) ==
    IF /\ \E i \in DOMAIN qs : qs[i].id = questionId
       /\ \E c \in DOMAIN dom.cards : dom.cards[c].questionId = IdString(questionId)
    THEN LET question == qs[CHOOSE i \in DOMAIN qs :
                              /\ qs[i].id = questionId
                              /\ \A k \in 1..(i - 1) : qs[k].id # questionId]
             card == CHOOSE c \in DOMAIN dom.cards :
                       /\ dom.cards[c].questionId = IdString(questionId)
                       /\ \A k \in 1..(c - 1) : dom.cards[k].questionId # IdString(questionId)
         IN [dom EXCEPT !.cards[card] = RenderQuestion(question, answers)]
    ELSE dom

\* a selectOption that rebuilds the whole map from the clicked question alone
SelectOption_ResetOthers(questionId, optionId, isMultiSelect) ==
    LET before == selectedAnswers[questionId]
    IN /\ selectedAnswers' =
            [q \in QuestionIds |->
                IF q = questionId THEN Selected(before, optionId, isMultiSelect)
                ELSE NotSelected]
       /\ container' = RenderSpecificQuestion(container, data.questions,
                                              selectedAnswers', questionId)
       /\ lastCall' = [op |-> "selectOption", questionId |-> questionId,
                       optionId |-> optionId, isMultiSelect |-> isMultiSelect,
                       before |-> before]
       /\ UNCHANGED <<fetchResult, data>>

SelectOption(questionId, optionId, isMultiSelect) ==
    LET before == selectedAnswers[questionId]
        throws == isMultiSelect /\ before.kind = "string"
    IN /\ selectedAnswers' =
            [selectedAnswers EXCEPT ![questionId] = Selected(before, optionId, isMultiSelect)]
       /\ container' = IF throws THEN container
                       ELSE RenderSpecificQuestion(container, data.questions,
                                                   selectedAnswers', questionId)
       /\ lastCall' = [op |-> "selectOption", questionId |-> questionId,
                       optionId |-> optionId, isMultiSelect |-> isMultiSelect,
                       before |-> before]
       /\ UNCHANGED <<fetchResult, data>>

\* the click listener of a rendered .option element, reading its data attributes
ClickOption(card, option) ==
    /\ OnQuiz
    /\ card \in DOMAIN container.cards
    /\ option \in DOMAIN container.cards[card].options
    /\ LET element == container.cards[card].options[option] IN
         SelectOption(ParseInt(element.questionId), element.optionId,
                      element.multiSelect = "true")


----------------------------------------------------------------------------
(* unnamed/part_000: the Knowledge Check list *)

KC(title, topic, file) == [title |-> title, topic |-> topic, file |-> file]

\* the entries a catalog manifest is built from
KCPool ==
    { KC(<<"a">>, <<"x">>, "f1"),
      KC(<<"B">>, <<"x">>, "f2"),
      KC(<<"a">>, <<"Y">>, "f3"),
      KC(<<"a">>, <<"x">>, "f4") }

KCManifests == SeqsUpTo(KCPool, MaxKC)

SortValues == {"title-asc", "title-desc", "topic-asc", "topic-desc", "recent"}

KCSearchTerms == {<<>>, <<"A">>, <<"y">>}

Letters == <<"a", "b", "c", "x", "y">>

\* the alphabetic position of a character, case ignored
Primary(c) == CHOOSE k \in DOMAIN Letters : Letters[k] = ToLowerChar(c)

\* lower case sorts before upper case
Tertiary(c) == IF ToLowerChar(c) = c THEN 0 ELSE 1

\* the UTF-16 code unit order: upper case before lower case, then alphabetic
CodeUnit(c) == IF ToLowerChar(c) = c THEN 100 + Primary(c) ELSE Primary(c)

\* -1, 0 or 1: how number sequences a and b compare, a proper prefix first
RECURSIVE LexCompare(_, _)
LexCompare(a, b) ==
    IF a = <<>> THEN (IF b = <<>> THEN 0 ELSE -1)
    ELSE IF b = <<>> THEN 1
    ELSE IF Head(a) < Head(b) THEN -1
    ELSE IF Head(a) > Head(b) THEN 1
    ELSE LexCompare(Tail(a), Tail(b))

\* String.prototype.localeCompare: the letters first, case only between
\* strings of the same letters
LocaleCompare(a, b) ==
    LET letters == LexCompare([i \in DOMAIN a |-> Primary(a[i])],
                              [i \in DOMAIN b |-> Primary(b[i])])
    IN IF letters # 0 THEN letters
       ELSE LexCompare([i \in DOMAIN a |-> Tertiary(a[i])],
                       [i \in DOMAIN b |-> Tertiary(b[i])])

\* x || y on numbers
OrElse(x, y) == IF x # 0 THEN x ELSE y

\* a comparator whose 'topic-desc' reverses the title too
Compare_TitleFollowsTopic(sortValue, a, b) ==
    CASE sortValue = "title-asc"  -> LocaleCompare(a.title, b.title)
      [] sortValue = "title-desc" -> LocaleCompare(b.title, a.title)
      [] sortValue = "topic-asc"  ->
            OrElse(LocaleCompare(a.topic, b.topic), LocaleCompare(a.title, b.title))
      [] sortValue = "topic-desc" ->
            OrElse(LocaleCompare(b.topic, a.topic), LocaleCompare(b.title, a.title))
      [] OTHER -> 0

\* a comparator whose default case answers 1: every entry sorts after the next
Compare_DefaultOne(sortValue, a, b) ==
    CASE sortValue = "title-asc"  -> LocaleCompare(a.title, b.title)
      [] sortValue = "title-desc" -> LocaleCompare(b.title, a.title)
      [] sortValue = "topic-asc"  ->
            OrElse(LocaleCompare(a.topic, b.topic), LocaleCompare(a.title, b.title))
      [] sortValue = "topic-desc" ->
            OrElse(LocaleCompare(b.topic, a.topic), LocaleCompare(a.title, b.title))
      [] OTHER -> 1

\* the comparator sortKCs hands to Array.prototype.sort
Compare(sortValue, a, b) ==
    CASE sortValue = "title-asc"  -> LocaleCompare(a.title, b.title)
      [] sortValue = "title-desc" -> LocaleCompare(b.title, a.title)
      [] sortValue = "topic-asc"  ->
            OrElse(LocaleCompare(a.topic, b.topic), LocaleCompare(a.title, b.title))
      [] sortValue = "topic-desc" ->
            OrElse(LocaleCompare(b.topic, a.topic), LocaleCompare(a.title, b.title))
      [] OTHER -> 0

\* x put into the sorted list after every entry that does not sort after it
RECURSIVE Insert(_, _, _)
Insert(sortValue, sorted, x) ==
    IF sorted = <<>> THEN <<x>>
    ELSE IF Compare(sortValue, sorted[Len(sorted)], x) <= 0 THEN Append(sorted, x)
    ELSE Append(Insert(sortValue, SubSeq(sorted, 1, Len(sorted) - 1), x), sorted[Len(sorted)])

\* Array.prototype.sort with the comparator: a stable sort
RECURSIVE Sorted(_, _)
Sorted(sortValue, list) ==
    IF list = <<>> THEN <<>>
    ELSE Insert(sortValue, Sorted(sortValue, SubSeq(list, 1, Len(list) - 1)), list[Len(list)])

\* [...new Set(kcData.map(kc => kc.topic))].sort(): distinct, in code unit order
RECURSIVE SortedTopics(_)
SortedTopics(topics) ==
    IF topics = {} THEN <<>>
    ELSE LET first == CHOOSE t \in topics :
                        \A u \in topics :
                            LexCompare([i \in DOMAIN t |-> CodeUnit(t[i])],
                                       [i \in DOMAIN u |-> CodeUnit(u[i])]) <= 0
         IN <<first>> \o SortedTopics(topics \ {first})

PopulateTopicFilter(list) == SortedTopics({list[i].topic : i \in DOMAIN list})

KCStatic == [kind |-> "static", cards |-> <<>>]
KCError  == [kind |-> "error", cards |-> <<>>]

RenderKCList(filtered) ==
    IF Len(filtered) = 0 THEN [kind |-> "empty", cards |-> <<>>]
    ELSE [kind |-> "cards", cards |-> filtered]

\* kcData: the array, or undefined once a JSON without knowledgeChecks was assigned
KCData(list) == [defined |-> TRUE, list |-> list]
KCUndefined == [defined |-> FALSE, list |-> <<>>]

\* the first statements of the try block of loadKCList throw
LoadKCListThrows(r) == r.net = "error" \/ ~r.ok \/ JsonThrows(r)

LoadKCList ==
    /\ OnCatalog
    /\ fetchResult = Pending
    /\ \E r \in Responses(KCManifests) :
        /\ fetchResult' = Outcome(r)
        /\ IF LoadKCListThrows(r)
           THEN /\ kcListContainer' = KCError
                /\ UNCHANGED <<kcData, filteredData, topicFilter, topicOptions>>
           ELSE IF r.kind = "other"
           THEN \* kcData = undefined; [...kcData] throws
                /\ kcData' = KCUndefined
                /\ kcListContainer' = KCError
                /\ UNCHANGED <<filteredData, topicFilter, topicOptions>>
           ELSE /\ kcData' = KCData(r.data)
                /\ topicOptions' = PopulateTopicFilter(r.data)
                /\ topicFilter' = <<>>
                /\ filteredData' = Sorted(sortSelect, r.data)
                /\ kcListContainer' = RenderKCList(filteredData')
    /\ lastCall' = [op |-> "loadKCList"]
    /\ UNCHANGED <<searchInput, sortSelect>>

\* the change event of #sortSelect: the user leaves `value` selected
SortKCs(value) ==
    /\ OnCatalog
    /\ sortSelect' = value
    /\ filteredData' = Sorted(value, filteredData)
    /\ kcListContainer' = RenderKCList(filteredData')
    /\ lastCall' = [op |-> "sortKCs"]
    /\ UNCHANGED <<fetchResult, kcData, searchInput, topicFilter, topicOptions>>

KCMatches(kc, searchTerm, topic) ==
    LET matchesSearch == \/ Includes(ToLowerCase(kc.title), searchTerm)
                         \/ Includes(ToLowerCase(kc.topic), searchTerm)
        matchesTopic  == topic = <<>> \/ kc.topic = topic
    IN matchesSearch /\ matchesTopic

KCFilteredBy(list, term, topic) ==
    LET searchTerm == ToLowerCase(term)
        Test(kc) == KCMatches(kc, searchTerm, topic)
    IN SelectSeq(list, Test)

\* the input event of #searchInput or the change event of #topicFilter: the user
\* leaves `term` and `topic` in the controls; kcData.filter of undefined throws
FilterKCs(term, topic) ==
    /\ OnCatalog
    /\ topic = <<>> \/ \E i \in DOMAIN topicOptions : topicOptions[i] = topic
    /\ searchInput' = term
    /\ topicFilter' = topic
    /\ IF kcData.defined
       THEN /\ filteredData' = Sorted(sortSelect, KCFilteredBy(kcData.list, term, topic))
            /\ kcListContainer' = RenderKCList(filteredData')
       ELSE UNCHANGED <<filteredData, kcListContainer>>
    /\ lastCall' = [op |-> "filterKCs"]
    /\ UNCHANGED <<fetchResult, kcData, topicOptions, sortSelect>>


----------------------------------------------------------------------------
(* The pages *)

Widgets == {"theme", "gallery", "quiz", "catalog"}

Init ==
    /\ widget \in Widgets
    /\ fetchResult = Pending
    /\ lastCall = NoCall
    \* theme.js
    /\ storedTheme \in (IF widget = "theme" THEN ThemeValues ELSE {Null})
    /\ dataTheme = Null
    /\ toggleBound = FALSE
    \* gallery.js:10-16
    /\ folderParam \in (IF widget = "gallery" THEN FolderParams ELSE {NoParam})
    /\ allImages = <<>>
    /\ filteredImages = <<>>
    /\ currentImageIndex = 0
    /\ searchBox = <<>>
    /\ gallery = GalleryStatic
    /\ lightboxActive = FALSE
    /\ lightboxShown = NothingShown
    \* knowledgeCheck.js:7-14
    /\ data = NoData
    /\ selectedAnswers = [q \in QuestionIds |-> NotSelected]
    /\ container = QuizStatic
    \* unnamed/part_000:10-11
    /\ kcData = KCData(<<>>)
    /\ filteredData = <<>>
    /\ searchInput = <<>>
    /\ topicFilter = <<>>
    /\ topicOptions = <<>>
    /\ sortSelect \in (IF widget = "catalog" THEN SortValues ELSE {"title-asc"})
    /\ kcListContainer = KCStatic

Next ==
    \/ InitTheme
    \/ ToggleTheme
    \/ LoadImages
    \/ \E term \in SearchTerms : FilterImages(term)
    \/ \E index \in 0..(Len(gallery.cards) - 1) : OpenLightbox(index)
    \/ \E target \in {"none", "lightbox", "lightboxImage"} : CloseLightbox(target)
    \/ \E direction \in {-1, 1} : NavigateImage(direction)
    \/ \E key \in Keys : KeyDown(key)
    \/ DownloadImage
    \/ LoadFromJSON
    \/ \E card \in DOMAIN container.cards :
          \E option \in DOMAIN container.cards[card].options : ClickOption(card, option)
    \/ LoadKCList
    \/ \E value \in SortValues : SortKCs(value)
    \/ \E term \in KCSearchTerms, topic \in {<<>>} \cup Range(topicOptions) :
          FilterKCs(term, topic)

Spec == Init /\ [][Next]_vars

----------------------------------------------------------------------------
(* Properties of the quiz engine *)

\* optionId is in the selection entry `selected`
InSelection(selected, optionId) ==
    \/ selected.kind = "string" /\ selected.str = optionId
    \/ selected.kind = "array" /\ optionId \in Range(selected.arr)

\* the current state was produced by selectOption
AfterSelect == lastCall.op = "selectOption"

\* ... by a click on an option that was selected at the time
AfterClickOnSelected == AfterSelect /\ InSelection(lastCall.before, lastCall.optionId)

Entry == selectedAnswers[lastCall.questionId]

\* the question of data.questions with this id is rendered with a clickable
\* element for the option
Clickable(questionId, optionId) ==
    \E c \in DOMAIN container.cards : \E o \in DOMAIN container.cards[c].options :
        /\ ParseInt(container.cards[c].options[o].questionId) = questionId
        /\ container.cards[c].options[o].optionId = optionId

\* C1 as stated: for every question, single-select or multi-select, a click on an
\* option that is currently selected removes it from the question's selection.
C1_ClickOnSelectedDeselects ==
    AfterClickOnSelected => ~InSelection(Entry, lastCall.optionId)

\* C1 amended: on a multi-select question a click on a selected option removes it and
\* keeps the rest of the selection, and every selected option stays clickable, so the
\* question can be brought back to an empty selection by clicks alone; on a
\* single-select question a click on any option, the selected one included, leaves
\* exactly that option selected, so an answered single-select question stays answered.
C1_DeselectOnlyMultiSelect ==
    /\ AfterClickOnSelected /\ lastCall.isMultiSelect =>
          /\ ~InSelection(Entry, lastCall.optionId)
          /\ Entry.kind = "array"
          /\ Range(Entry.arr) = Range(lastCall.before.arr) \ {lastCall.optionId}
    /\ AfterSelect /\ ~lastCall.isMultiSelect => Entry = Single(lastCall.optionId)
    /\ \A i \in DOMAIN data.questions :
          LET q == data.questions[i] IN
          /\ \A optionId \in OptionIds :
                InSelection(selectedAnswers[q.id], optionId) => Clickable(q.id, optionId)
          /\ ~q.multiSelect => selectedAnswers[q.id].kind \in {"undefined", "string"}

\* a selected option of a multi-select question has just been clicked away
C1_Witness ==
    /\ AfterClickOnSelected
    /\ lastCall.isMultiSelect
    /\ Len(lastCall.before.arr) = 2
    /\ Len(Entry.arr) = 1

\* C2: a multi-select selection holds at most 2 distinct option ids; a click on a 3rd
\* option while 2 are selected leaves it unchanged; a click on an unselected option
\* while fewer than 2 are selected (as after a deselect) appends it.
C2_MultiSelectCap ==
    /\ \A q \in QuestionIds :
          /\ Len(selectedAnswers[q].arr) <= 2
          /\ \A i, k \in DOMAIN selectedAnswers[q].arr :
                i # k => selectedAnswers[q].arr[i] # selectedAnswers[q].arr[k]
    /\ AfterSelect /\ lastCall.isMultiSelect
         /\ ~InSelection(lastCall.before, lastCall.optionId) =>
          IF Len(lastCall.before.arr) = 2
          THEN Entry = lastCall.before
          ELSE Entry = Multi(Append(lastCall.before.arr, lastCall.optionId))

\* a 3rd distinct option has just been clicked while 2 were selected
C2_Witness ==
    /\ AfterSelect
    /\ lastCall.isMultiSelect
    /\ Len(lastCall.before.arr) = 2
    /\ ~InSelection(lastCall.before, lastCall.optionId)
    /\ Entry = lastCall.before

Ids(qs) == [i \in DOMAIN qs |-> qs[i].id]

\* C6: after the load, the question ids are a rearrangement of the ids received
\* (nothing lost, nothing duplicated), and the question at 0-based position k has
\* displayNumber k + 1, in the state after the shuffle and in every later state.
C6_ShufflePermutesAndNumbers ==
    /\ lastCall.op = "loadFromJSON" /\ data.hasQuestions =>
          /\ IsPermutation(Ids(data.questions), Ids(lastCall.received))
          /\ IsPermutation([i \in DOMAIN data.questions |->
                              [data.questions[i] EXCEPT !.displayNumber = 0]],
                           lastCall.received)
    /\ \A i \in DOMAIN data.questions : data.questions[i].displayNumber = i

\* three questions have just been shuffled into another order
C6_Witness ==
    /\ lastCall.op = "loadFromJSON"
    /\ Len(data.questions) = 3
    /\ Ids(data.questions) # Ids(lastCall.received)
    /\ data.questions[1].id = lastCall.received[3].id

\* C7: selectOption(q, o, isMulti) changes the selection entry of q alone: the entries
\* of the other questions, the question order, the displayNumbers and the rendered
\* cards of the other questions are as before the call.
C7_SelectOptionFrame ==
    [][lastCall'.op = "selectOption" =>
         /\ \A q \in QuestionIds \ {lastCall'.questionId} :
               selectedAnswers'[q] = selectedAnswers[q]
         /\ data' = data
         /\ DOMAIN container'.cards = DOMAIN container.cards
         /\ \A c \in DOMAIN container.cards :
               ParseInt(container.cards[c].questionId) # lastCall'.questionId =>
                   container'.cards[c] = container.cards[c]]_vars

\* an option has just been clicked while another question holds a selection
C7_Witness ==
    /\ AfterSelect
    /\ Entry # lastCall.before
    /\ \E q \in QuestionIds \ {lastCall.questionId} : selectedAnswers[q].kind # "undefined"

\* the option of question questionId with this id, as the manifest gave it
OptionOf(questionId, optionId) ==
    LET q == data.questions[CHOOSE i \in DOMAIN data.questions :
                              data.questions[i].id = questionId]
    IN q.options[CHOOSE o \in DOMAIN q.options : q.options[o].id = optionId]

\* C8: a rendered option carries a correct/incorrect marker and an explanation block
\* exactly when it is in its question's selection; the marker is 'correct' exactly
\* when the option's isCorrect is true; an unselected option is neutral.
C8_MarkerIffSelected ==
    \A c \in DOMAIN container.cards : \A o \in DOMAIN container.cards[c].options :
        LET element  == container.cards[c].options[o]
            id       == ParseInt(element.questionId)
            selected == InSelection(selectedAnswers[id], element.optionId)
            correct  == OptionOf(id, element.optionId).isCorrect
        IN /\ element.class # "option" <=> selected
           /\ element.explanation # "none" <=> selected
           /\ selected => /\ element.class = "option correct" <=> correct
                          /\ element.explanation = "explanation correct" <=> correct
           /\ ~selected => element.class = "option" /\ element.explanation = "none"

\* a question is rendered with a selected incorrect option marked and an unselected
\* correct option neutral
C8_Witness ==
    \E c \in DOMAIN container.cards : \E o, u \in DOMAIN container.cards[c].options :
        LET id == ParseInt(container.cards[c].questionId) IN
        /\ container.cards[c].options[o].class = "option incorrect"
        /\ container.cards[c].options[o].explanation = "explanation incorrect"
        /\ container.cards[c].options[u].class = "option"
        /\ OptionOf(id, container.cards[c].options[u].optionId).isCorrect
        /\ ~InSelection(selectedAnswers[id], container.cards[c].options[u].optionId)

----------------------------------------------------------------------------
(* Properties of the theme toggle *)

\* C9: toggle() turns 'light' into 'dark' and 'dark' into 'light'; after every
\* toggle the document attribute and the persisted value are equal and are 'light'
\* or 'dark', whatever value was persisted at page load.
C9_ToggleFlipsAndPersists ==
    lastCall.op = "toggleTheme" =>
        /\ dataTheme = storedTheme
        /\ dataTheme \in {"light", "dark"}
        /\ lastCall.before = "light" => dataTheme = "dark"
        /\ lastCall.before = "dark" => dataTheme = "light"

\* the page was loaded with an unrecognized persisted value and has been toggled
C9_Witness ==
    /\ lastCall.op = "toggleTheme"
    /\ lastCall.before = "blue"
    /\ dataTheme = "light"
    /\ storedTheme = "light"

----------------------------------------------------------------------------
(* Properties of the gallery *)

\* the current state was produced by navigateImage(direction), from a button or a key
AfterNavigate(direction) ==
    \/ lastCall.op = "navigateImage" /\ lastCall.arg = direction
    \/ /\ lastCall.op = "keydown"
       /\ lastCall.active
       /\ lastCall.arg = (IF direction = -1 THEN "ArrowLeft" ELSE "ArrowRight")

\* C5: with N >= 1 filtered images and the current index on one of them,
\* navigateImage(-1) at index 0 gives N - 1, navigateImage(+1) at index N - 1 gives 0,
\* and navigateImage(d) gives index + d from every other index of the list.
C5_NavigateWraps ==
    \A d \in {-1, 1} :
        AfterNavigate(d) /\ lastCall.n >= 1
          /\ 0 <= lastCall.index /\ lastCall.index < lastCall.n =>
            /\ Len(filteredImages) = lastCall.n
            /\ currentImageIndex =
                  (IF d = -1 /\ lastCall.index = 0 THEN lastCall.n - 1
                   ELSE IF d = 1 /\ lastCall.index = lastCall.n - 1 THEN 0
                   ELSE lastCall.index + d)

\* navigateImage(-1) has just wrapped from the first of several images to the last
C5_Witness ==
    /\ AfterNavigate(-1)
    /\ lastCall.index = 0
    /\ lastCall.n >= 3
    /\ currentImageIndex = lastCall.n - 1

----------------------------------------------------------------------------
(* Properties of the catalog *)

\* C3 as stated: 'topic-desc' orders by topic descending and, within a topic, by
\* title descending ('topic-asc': both ascending).
C3_TitleFollowsTopicDirection ==
    \A i, k \in DOMAIN filteredData :
        i < k =>
            LET a == filteredData[i]
                b == filteredData[k]
            IN /\ sortSelect = "topic-asc" =>
                    \/ LocaleCompare(a.topic, b.topic) < 0
                    \/ LocaleCompare(a.topic, b.topic) = 0
                         /\ LocaleCompare(a.title, b.title) <= 0
               /\ sortSelect = "topic-desc" =>
                    \/ LocaleCompare(a.topic, b.topic) > 0
                    \/ LocaleCompare(a.topic, b.topic) = 0
                         /\ LocaleCompare(a.title, b.title) >= 0

\* C3 amended: both topic modes order by topic, 'topic-asc' ascending and
\* 'topic-desc' descending, and both break ties between equal topics by title
\* ascending.
C3_TopicThenTitleAscending ==
    \A i, k \in DOMAIN filteredData :
        i < k =>
            LET a == filteredData[i]
                b == filteredData[k]
            IN /\ sortSelect = "topic-asc" =>
                    \/ LocaleCompare(a.topic, b.topic) < 0
                    \/ LocaleCompare(a.topic, b.topic) = 0
                         /\ LocaleCompare(a.title, b.title) <= 0
               /\ sortSelect = "topic-desc" =>
                    \/ LocaleCompare(a.topic, b.topic) > 0
                    \/ LocaleCompare(a.topic, b.topic) = 0
                         /\ LocaleCompare(a.title, b.title) <= 0

\* a list of two topics has been sorted 'topic-desc' and holds two titles of one topic
C3_Witness ==
    /\ sortSelect = "topic-desc"
    /\ lastCall.op \in {"loadKCList", "sortKCs", "filterKCs"}
    /\ \E i, k \in DOMAIN filteredData :
          /\ i < k
          /\ filteredData[i].topic = filteredData[k].topic
          /\ LocaleCompare(filteredData[i].title, filteredData[k].title) < 0
    /\ \E i, k \in DOMAIN filteredData :
          i < k /\ LocaleCompare(filteredData[i].topic, filteredData[k].topic) > 0

----------------------------------------------------------------------------
(* Properties of the three manifest loads and of the two filters *)

\* the fetch failed: a network error, a non-OK response or a body that is not JSON
FetchFailed == fetchResult.net = "error" \/ ~fetchResult.ok \/ fetchResult.kind = "invalid"

\* C4: in every widget, a manifest fetch that failed leaves the widget showing its
\* error message, with nothing of a manifest loaded or rendered.
C4_FailedFetchEndsInError ==
    /\ lastCall.op = "loadImages" /\ FetchFailed =>
          gallery = GalleryError /\ allImages = <<>> /\ filteredImages = <<>>
    /\ lastCall.op = "loadFromJSON" /\ FetchFailed =>
          container = QuizError /\ data = NoData
    /\ lastCall.op = "loadKCList" /\ FetchFailed =>
          kcListContainer = KCError /\ kcData = KCData(<<>>) /\ filteredData = <<>>

\* C10 as stated: after a filter call the filtered list is the filter predicate
\* applied to the full list with the controls' current values, in the full list's order.
C10_FilteredInFullListOrder ==
    /\ lastCall.op = "filterImages" =>
          filteredImages = FilteredBy(allImages, searchBox)
    /\ lastCall.op = "filterKCs" /\ kcData.defined =>
          filteredData = KCFilteredBy(kcData.list, searchInput, topicFilter)

\* list is in the order of the comparator of sortValue
OrderedBy(sortValue, list) ==
    \A i, k \in DOMAIN list : i < k => Compare(sortValue, list[i], list[k]) <= 0

\* C10 amended: a filter call leaves the full list as it was and makes the filtered
\* list the filter predicate applied to the full list with the most recent term only:
\* in the gallery in the full list's order, in the catalog in the order of the
\* current sort mode, entries that the mode does not tell apart keeping the full
\* list's order; a later sort call only rearranges the filtered list.
C10_FilterFromFullList ==
    [][/\ lastCall'.op = "filterImages" =>
            /\ allImages' = allImages
            /\ filteredImages' = FilteredBy(allImages, searchBox')
       /\ lastCall'.op = "filterKCs" /\ kcData.defined =>
            /\ kcData' = kcData
            /\ IsPermutation(filteredData',
                             KCFilteredBy(kcData.list, searchInput', topicFilter'))
            /\ OrderedBy(sortSelect, filteredData')
            /\ filteredData' =
                  Sorted(sortSelect, KCFilteredBy(kcData.list, searchInput', topicFilter'))
       /\ lastCall'.op = "sortKCs" =>
            /\ kcData' = kcData
            /\ IsPermutation(filteredData', filteredData)]_vars

\* after the load, a filter term has just replaced a narrower one: the list grew
\* back, to a part of the full list
C10_Witness ==
    /\ lastCall.op = "filterImages"
    /\ fetchResult.kind = "manifest"
    /\ searchBox # <<>>
    /\ 0 < lastCall.n
    /\ lastCall.n < Len(filteredImages)
    /\ Len(filteredImages) < Len(allImages)

RecognizedSorts == {"title-asc", "title-desc", "topic-asc", "topic-desc"}

\* C11: with a sort value other than the four recognized modes, sortKCs leaves the
\* filtered catalog list in the order it had before the call, and a filter call
\* leaves it in the catalog manifest's order.
C11_UnrecognizedSortKeepsOrder ==
    [][/\ lastCall'.op = "sortKCs" /\ sortSelect' \notin RecognizedSorts =>
            filteredData' = filteredData
       /\ lastCall'.op = "filterKCs" /\ kcData.defined /\ sortSelect \notin RecognizedSorts =>
            LET Kept(kc) == KCMatches(kc, ToLowerCase(searchInput'), topicFilter')
            IN filteredData' = SelectSeq(kcData.list, Kept)]_vars

\* sortKCs has just run with an unrecognized value on a list that is sorted by
\* title in neither direction
C11_Witness ==
    /\ lastCall.op = "sortKCs"
    /\ sortSelect \notin RecognizedSorts
    /\ \E i, k \in DOMAIN filteredData :
          i < k /\ LocaleCompare(filteredData[i].title, filteredData[k].title) > 0
    /\ \E i, k \in DOMAIN filteredData :
          i < k /\ LocaleCompare(filteredData[i].title, filteredData[k].title) < 0

----------------------------------------------------------------------------
(* Properties of the gallery load, keyboard and lightbox *)

\* the fetch resolved with an OK response whose body is a manifest
FetchedManifest == fetchResult.net = "ok" /\ fetchResult.ok /\ fetchResult.kind = "manifest"

\* the entries the images of a note are to give (none when it has no images array)
EntriesOf(note) ==
    [i \in DOMAIN note.images.list |->
        [name   |-> note.images.list[i].name,
         file   |-> note.folder \o <<"/">> \o note.images.list[i].file,
         folder |-> note.title]]

RECURSIVE Flatten(_)
Flatten(lists) == IF lists = <<>> THEN <<>> ELSE Head(lists) \o Flatten(Tail(lists))

\* for 'all': the entries of every note that declares hasImages, in manifest order
EntriesOfAll(notes) ==
    Flatten([i \in DOMAIN notes |->
                IF notes[i].hasImages THEN EntriesOf(notes[i]) ELSE <<>>])

Matching(notes, param) == {i \in DOMAIN notes : notes[i].folder = param}

\* C12 as stated: after a successful load the full list is, for 'all', the entries
\* of every note that declares hasImages; otherwise the entries of the single note
\* whose folder equals the parameter, and nothing when no note matches; the gallery
\* is not in the error state.
C12_FolderImagesOfMatchingNote ==
    lastCall.op = "loadImages" /\ FetchedManifest =>
        LET notes == lastCall.arg
            match == Matching(notes, folderParam)
        IN /\ gallery.kind # "error"
           /\ filteredImages = allImages
           /\ folderParam = All => allImages = EntriesOfAll(notes)
           /\ folderParam # All /\ match = {} => allImages = <<>>
           /\ folderParam # All /\ Cardinality(match) = 1 =>
                 allImages = EntriesOf(notes[CHOOSE i \in match : TRUE])

\* C12 amended: as stated for 'all' and for a folder that no note matches; for any
\* other folder the full list holds the entries of the first note whose folder equals
\* the parameter if that note declares hasImages, and is empty if it does not, also
\* when the note carries an images array.
C12_FolderImagesNeedHasImages ==
    lastCall.op = "loadImages" /\ FetchedManifest =>
        LET notes == lastCall.arg
            match == Matching(notes, folderParam)
        IN /\ gallery.kind # "error"
           /\ filteredImages = allImages
           /\ gallery.cards = allImages
           /\ folderParam = All => allImages = EntriesOfAll(notes)
           /\ folderParam # All /\ match = {} => allImages = <<>>
           /\ folderParam # All /\ match # {} =>
                 LET note == notes[CHOOSE i \in match : \A k \in match : i <= k]
                 IN allImages = IF note.hasImages THEN EntriesOf(note) ELSE <<>>

\* a folder that two notes of the manifest carry has just been loaded, and the
\* first of the two declares hasImages and gave its images
C12_Witness ==
    /\ lastCall.op = "loadImages"
    /\ FetchedManifest
    /\ folderParam # All
    /\ Cardinality(Matching(lastCall.arg, folderParam)) = 2
    /\ Len(allImages) >= 2

\* C13: a keydown event changes the gallery state only while the lightbox is open:
\* while it is closed no key changes anything; while it is open Escape closes it and
\* keeps the index, ArrowLeft has the effect of navigateImage(-1) and ArrowRight that
\* of navigateImage(1) with the lightbox still open, and any other key changes nothing.
C13_KeysActOnlyWhileOpen ==
    [][lastCall'.op = "keydown" =>
          LET key == lastCall'.arg IN
          /\ UNCHANGED <<fetchResult, folderParam, allImages, filteredImages,
                         searchBox, gallery>>
          /\ ~lightboxActive => UNCHANGED <<currentImageIndex, lightboxActive, lightboxShown>>
          /\ lightboxActive /\ key = "Escape" =>
                ~lightboxActive' /\ UNCHANGED currentImageIndex
          /\ lightboxActive /\ key = "ArrowLeft" => lightboxActive' /\ Navigate(-1)
          /\ lightboxActive /\ key = "ArrowRight" => lightboxActive' /\ Navigate(1)
          /\ lightboxActive /\ key \notin {"Escape", "ArrowLeft", "ArrowRight"} =>
                UNCHANGED <<currentImageIndex, lightboxActive, lightboxShown>>]_vars

\* an arrow key has just been pressed with the lightbox closed, after the lightbox had
\* been opened on a list of two or more images and closed again
C13_Witness ==
    /\ lastCall.op = "keydown"
    /\ lastCall.arg \in {"ArrowLeft", "ArrowRight"}
    /\ ~lastCall.active
    /\ lastCall.n >= 2
    /\ lightboxShown # NothingShown

\* C14: in the gallery and in the catalog, in every state after the manifest load has
\* completed, whatever filter events came before or after it, the displayed filtered
\* list holds exactly the entries of the full list that the filter predicate keeps
\* under the current values of the search and topic controls.
C14_FilteredMatchesControls ==
    fetchResult # Pending =>
        /\ widget = "gallery" =>
              /\ filteredImages = FilteredBy(allImages, searchBox)
              /\ gallery.kind = "cards" => gallery.cards = filteredImages
        /\ widget = "catalog" /\ kcData.defined =>
              IsPermutation(filteredData, KCFilteredBy(kcData.list, searchInput, topicFilter))

\* C15: whenever the lightbox is open the current index is an index of the filtered
\* list, the image, name and counter shown are those of that entry, and downloadImage
\* finds an entry to download.
C15_OpenIndexInRange ==
    lightboxActive =>
        /\ HasEntry(filteredImages, currentImageIndex)
        /\ lightboxShown = Shown(filteredImages, currentImageIndex)
        /\ lastCall.op = "downloadImage" => ~lastCall.arg.thrown

====
